---- MODULE Spec2Model ----
(***************************************************************************)
(* Strategy execution engine of the trading-bot service: the Celery task   *)
(* run_trading_strategy (bots/tasks.py), the TradingStrategy executor and  *)
(* its stop_bot method (bots/strategies.py), the start view (views.py).    *)
(*                                                                         *)
(* One bot is modelled.  Prices are integers in ticks, quantities integers *)
(* in quantity steps; the average price is an exact rational <<n, d>>.     *)
(* A task slot is one Celery message: pending in the broker, then running  *)
(* through the positions of the handler, then either re-sent (retry, next  *)
(* tick) or gone.                                                          *)
(***************************************************************************)
EXTENDS Integers, Sequences, FiniteSets, TLC

\* ------------------------------------------------------------------ bounds
MaxTasks == 2
MaxOrders == 3
MaxPrice == 2
MaxStarts == 2
MaxQty == 6
MaxStep == 3
MaxWindow == 4
MaxVal == 1
Period == 2
SignalPeriod == 2
ArbSpot == 1000
ArbRange == 12
MaxSent == 12
MaxPeriods == 2
MaxBase == 3
MaxLevel == 2
MaxGridPrice == 8
MaxGridOrders == 3
MaxBuys == 3
MaxBuyPrice == 3
MaxBuyQty == 2
MaxTickPrice == 12
MaxRoundings == 3

\* ------------------------------------------------------- program constants
MaxRetries == 3
RetryBase == 60
DefaultThresholdPermille == 5
DefaultTrailingPercent == 1
QtyStep == 1
MinOrderSize == 1
DefaultPrecision == 1
DefaultMinQty == 1
RateLimit == 10

Tasks == 1..MaxTasks
OrderIds == 1..MaxOrders
Prices == 1..MaxPrice

\* ---------------------------------------------------------------- rationals
RECURSIVE GCD(_, _)
GCD(a, b) == IF b = 0 THEN a ELSE GCD(b, a % b)

Rat(n, d) == LET g == GCD(n, d) IN IF g = 0 THEN <<0, 1>> ELSE <<n \div g, d \div g>>
RInt(n) == <<n, 1>>
RZero == <<0, 1>>
RLe(a, b) == a[1] * b[2] <= b[1] * a[2]
\* The first of the two, whatever the second.
RFirst(a, b) == a

RMax(a, b) == IF RLe(a, b) THEN b ELSE a
RFloor(a) == a[1] \div a[2]
RIsZero(a) == a[1] = 0

RECURSIVE Pow(_, _)
Pow(b, e) == IF e = 0 THEN 1 ELSE b * Pow(b, e - 1)

Min(a, b) == IF a <= b THEN a ELSE b

\* ------------------------------------------------------------ configuration

\* The bot's immutable settings (Bot and BotSettings rows).  Percentages are
\* whole per cent; stop_loss = 0 stands for "not set".
BaseConfig ==
  [ strategy |-> "spot", trade_mode |-> "order_grid", combined_strategies |-> <<>>,
    stop_after_deals |-> FALSE, stop_loss |-> 0, task_interval |-> 5,
    take_profit |-> 100, trailing_stop_percentage |-> 50, martingale |-> 100,
    grid_orders |-> 2, grid_spacing |-> 25, grid_overlap |-> 0,
    grid_follow |-> FALSE, arbitrage_spread_threshold |-> 0, base_quantity |-> 1 ]

Configs ==
  { [BaseConfig EXCEPT !.stop_after_deals = TRUE, !.grid_orders = 1],
    [BaseConfig EXCEPT !.strategy = "futures", !.stop_loss = 50, !.grid_follow = TRUE,
                       !.trade_mode = "martingale",
                       !.combined_strategies = <<"martingale", "order_grid">>],
    [BaseConfig EXCEPT !.trade_mode = "dca", !.stop_loss = 50],
    [BaseConfig EXCEPT !.trade_mode = "trailing_stop"],
    [BaseConfig EXCEPT !.trade_mode = "arbitrage", !.strategy = "futures"],
    [BaseConfig EXCEPT !.trade_mode = "custom"] }

\* --------------------------------------------------------------------- state
VARIABLES
  cfg,      \* the bot's settings
  bot,      \* persisted Bot row: status, is_running, deals_completed, trade_mode
  pos,      \* persisted BotPosition row
  lock,     \* cache key run_trading_strategy_<bot_id> is present
  tasks,    \* Celery messages / invocations of run_trading_strategy
  orders,   \* the venue's orders of this bot: id -> [side, price, qty, status]
  nextId,   \* next order id the venue assigns
  dcaLast,  \* cache key dca_last_execution_<bot_id> is present
  starts,   \* how many times the user started the bot
  call      \* one call of a function studied on its own: inputs and result

vars == <<cfg, bot, pos, lock, tasks, orders, nextId, dcaLast, starts, call>>

\* BotPosition defaults (models.py): position 0, avg_price 0, no ids, not opened,
\* highest_price NULL (modelled as zero, the two are both falsy in the code).
EmptyPosition ==
  [ position |-> 0, avg_price |-> RZero, sell_order_id |-> 0, buy_orders |-> <<>>,
    position_opened |-> FALSE, highest_price |-> RZero ]

NoBot == [ status |-> "none", is_running |-> FALSE, deals_completed |-> 0, trade_mode |-> "none" ]

IdleTask ==
  [ pc |-> "idle", retries |-> 0, delay |-> 0, bot |-> NoBot, po |-> EmptyPosition,
    s |-> EmptyPosition, next |-> "none", outcome |-> "none", placed |-> 0,
    signal |-> FALSE, price |-> 0, margin |-> FALSE, stopcond |-> FALSE, stopDone |-> <<>>,
    exc |-> "none", connOk |-> TRUE ]

NoCall == [ op |-> "none" ]

\* Every row in its initial state, nothing scheduled.
Idle ==
  /\ cfg \in Configs
  /\ bot = [ status |-> "stopped", is_running |-> FALSE, deals_completed |-> 0,
             trade_mode |-> cfg.trade_mode ]
  /\ pos = EmptyPosition
  /\ lock = FALSE
  /\ tasks = [ t \in Tasks |-> IdleTask ]
  /\ orders = [ o \in {} |-> 0 ]
  /\ nextId = 1
  /\ dcaLast = FALSE
  /\ starts = 0

Init == Idle /\ call = NoCall

\* ------------------------------------------------- the executor's machine
\* One invocation's view while it runs: its in-memory Bot (bot), its
\* BotPosition object (po), the TradingStrategy attributes (s), and the
\* shared state it reads and writes (dbot, dpos, orders, nextId, dca).
\* exc is the exception that escaped so far, stop the pending stop_bot()
\* call of execute, ret the id returned by the last place_order (0: raised).

Category == IF cfg.strategy = "futures" THEN "linear" ELSE "spot"

Save(m) == [m EXCEPT !.dpos = m.po]

SaveBot(m) == [m EXCEPT !.dbot = m.bot]

Raise(m, e) == [m EXCEPT !.exc = e]

\* TradingStrategy.__init__: the attributes copied from the BotPosition row.
InitStrategy(po) ==
  [ position |-> po.position, avg_price |-> po.avg_price,
    sell_order_id |-> po.sell_order_id, buy_orders |-> po.buy_orders,
    position_opened |-> po.position_opened,
    highest_price |-> IF RIsZero(po.highest_price) THEN po.avg_price ELSE po.highest_price ]

\* round_price: floor to a multiple of the tick (prices are in ticks).
RoundPrice(p) == RFloor(p)

\* ExchangeAPI.create_order's local quantity check: floor to the step.
\* The quantity passed on as it came.
NoFloor(q, st) == q

\* math.floor(qty / base_precision) * base_precision
FloorToStep(q, st) == (q \div st) * st

FloorQty(q) == FloorToStep(q, QtyStep)

\* place_order -> ExchangeAPI.create_order.  The venue accepts the first
\* inp.accept orders of the cycle and rejects a non-positive price.
PlaceOrder(m, inp, side, p, q) ==
  LET fp == RoundPrice(p)
      fq == FloorQty(q)
  IN IF fq < MinOrderSize \/ m.placed >= inp.accept \/ m.nextId > MaxOrders \/ fp < 1
     THEN [m EXCEPT !.ret = 0]
     ELSE [m EXCEPT !.orders = [o \in (DOMAIN m.orders) \cup {m.nextId} |->
                                  IF o = m.nextId
                                  THEN [side |-> side, price |-> fp, qty |-> fq, status |-> "open"]
                                  ELSE m.orders[o]],
                    !.nextId = m.nextId + 1,
                    !.placed = m.placed + 1,
                    !.ret = m.nextId]

\* The average taken to be the price of the last buy.
LastPrice(Q, A, p, q) == p

\* update_position: avg_price after a buy of q at p on the position (Q, A);
\* prices are exact fractions.
WeightedAverage(Q, A, p, q) ==
  IF Q = 0 THEN p
  ELSE Rat(A[1] * Q * p[2] + p[1] * q * A[2], A[2] * p[2] * (Q + q))

\* update_position: position after a buy of q.
NewQuantity(Q, q) == IF Q = 0 THEN q ELSE Q + q

\* update_position(price, qty): weighted average, then save.
UpdatePosition(m, p, q) ==
  LET avg == WeightedAverage(m.s.position, m.s.avg_price, p, q)
      qty == NewQuantity(m.s.position, q)
  IN Save([m EXCEPT !.s.position = qty, !.s.avg_price = avg, !.s.position_opened = TRUE,
                    !.po.position = qty, !.po.avg_price = avg, !.po.position_opened = TRUE])

\* A close that leaves the take-profit order id in place.
ClosePositionKeepsSellId(m) ==
  Save([m EXCEPT !.s = [EmptyPosition EXCEPT !.sell_order_id = m.s.sell_order_id],
                 !.po = [EmptyPosition EXCEPT !.sell_order_id = m.s.sell_order_id]])

\* close_position(profit): every field back to zero / empty, then save.
ClosePosition(m) == Save([m EXCEPT !.s = EmptyPosition, !.po = EmptyPosition])

\* cancel_order(order_id): errors of the venue are logged and swallowed.
CancelOrder(m, inp, id) ==
  IF inp.cancelOk /\ id \in DOMAIN m.orders /\ m.orders[id].status = "open"
  THEN [m EXCEPT !.orders[id].status = "cancelled"]
  ELSE m

RECURSIVE CancelBuys(_, _, _)
CancelBuys(m, inp, ids) ==
  IF ids = <<>> THEN m
  ELSE CancelBuys(CancelOrder(m, inp, Head(ids)), inp, Tail(ids))

\* cancel_all_orders: cancel and forget every buy order and the sell order, save.
CancelAllOrders(m, inp) ==
  LET m1 == CancelBuys(m, inp, m.s.buy_orders)
      m2 == IF m.s.sell_order_id # 0 THEN CancelOrder(m1, inp, m.s.sell_order_id) ELSE m1
  IN Save([m2 EXCEPT !.s.buy_orders = <<>>, !.s.sell_order_id = 0,
                     !.po.buy_orders = <<>>, !.po.sell_order_id = 0])

SeqContains(sq, x) == \E i \in 1..Len(sq) : sq[i] = x

\* The venue's answer to the open-orders query: every open order, and the
\* filled orders it still reports (inp.seen).
Response(m, inp) ==
  { o \in DOMAIN m.orders : m.orders[o].status = "open"
                             \/ (m.orders[o].status = "filled" /\ o \in inp.seen) }

IncDeals(m) == SaveBot([m EXCEPT !.bot.deals_completed = m.bot.deals_completed + 1])

\* The ids of S in ascending order, from o on.
RECURSIVE Ascending(_, _)
Ascending(S, o) ==
  IF o > MaxOrders THEN <<>>
  ELSE (IF o \in S THEN <<o>> ELSE <<>>) \o Ascending(S, o + 1)

Reverse(sq) == [ i \in 1..Len(sq) |-> sq[Len(sq) + 1 - i] ]

\* The list as the venue orders it: oldest first or newest first.
ResponseList(m, inp) ==
  IF inp.newestFirst THEN Reverse(Ascending(Response(m, inp), 1))
  ELSE Ascending(Response(m, inp), 1)

\* check_open_orders: the loop over the answered list.
RECURSIVE OpenOrdersLoop(_, _, _)
OpenOrdersLoop(m, resp, remaining) ==
  IF resp = <<>> THEN [m |-> m, remaining |-> remaining]
  ELSE IF SeqContains(m.s.buy_orders, Head(resp))
       THEN IF m.orders[Head(resp)].status = "filled"
            THEN OpenOrdersLoop(IncDeals(UpdatePosition(m, RInt(m.orders[Head(resp)].price),
                                                        m.orders[Head(resp)].qty)),
                                Tail(resp), remaining)
            ELSE OpenOrdersLoop(m, Tail(resp), Append(remaining, Head(resp)))
       ELSE IF Head(resp) = m.s.sell_order_id /\ m.orders[Head(resp)].status = "filled"
            THEN OpenOrdersLoop(IncDeals(ClosePosition(m)), Tail(resp), remaining)
            ELSE OpenOrdersLoop(m, Tail(resp), remaining)

\* check_open_orders: a transport failure or an error code leaves everything as is.
CheckOpenOrders(m, inp) ==
  IF ~inp.respOk THEN m
  ELSE LET r == OpenOrdersLoop(m, ResponseList(m, inp), <<>>)
       IN Save([r.m EXCEPT !.s.buy_orders = r.remaining, !.po.buy_orders = r.remaining])

\* place_sell_order: the take-profit order at avg_price * (1 + take_profit).
PlaceSellOrder(m, inp) ==
  IF m.s.position <= 0 \/ m.s.sell_order_id # 0 THEN m
  ELSE IF ~inp.priceOk THEN Raise(m, "ValueError")
  ELSE LET sell == Rat(m.s.avg_price[1] * (100 + cfg.take_profit), m.s.avg_price[2] * 100)
           m1 == PlaceOrder(m, inp, "sell", RInt(RoundPrice(sell)), m.s.position)
       IN IF m1.ret = 0 THEN Raise(m1, "ValueError")
          ELSE Save([m1 EXCEPT !.s.sell_order_id = m1.ret, !.po.sell_order_id = m1.ret])

\* calculate_buy_levels (linear distribution): level i (0-based) below the price.
BuyLevel(p, i) ==
  RoundPrice(Rat(p * 10000 - p * cfg.grid_spacing * (100 + cfg.grid_overlap) * (i + 1), 10000))

\* calculate_quantity(level_index)
CalculateQuantity(i) ==
  LET q == (cfg.base_quantity * Pow(100 + cfg.martingale, i)) \div Pow(100, i)
      q1 == IF q < MinOrderSize THEN MinOrderSize ELSE q
  IN (q1 \div QtyStep) * QtyStep

\* The grid's placement loop over the first n levels; swallow tells whether a
\* rejected order is skipped (run_advanced_grid) or ends the loop (adjust_grid).
RECURSIVE PlaceLevels(_, _, _, _, _, _)
PlaceLevels(m, inp, p, i, n, swallow) ==
  IF i >= n THEN m
  ELSE LET qty == CalculateQuantity(i)
       IN IF qty < MinOrderSize THEN PlaceLevels(m, inp, p, i + 1, n, swallow)
          ELSE LET m1 == PlaceOrder(m, inp, "buy", RInt(BuyLevel(p, i)), qty)
               IN IF m1.ret = 0
                  THEN IF swallow THEN PlaceLevels(m1, inp, p, i + 1, n, swallow) ELSE m1
                  ELSE PlaceLevels(
                         Save([m1 EXCEPT !.s.buy_orders = Append(m1.s.buy_orders, m1.ret),
                                         !.po.buy_orders = Append(m1.s.buy_orders, m1.ret)]),
                         inp, p, i + 1, n, swallow)

LevelsToPlace(m) == Min(cfg.grid_orders, cfg.grid_orders - Len(m.s.buy_orders))

\* adjust_grid(current_price): cancel the tracked buys, place the levels anew.
AdjustGrid(m, inp, p) ==
  IF ~cfg.grid_follow THEN m
  ELSE LET m1 == CancelBuys(m, inp, m.s.buy_orders)
           m2 == Save([m1 EXCEPT !.s.buy_orders = <<>>, !.po.buy_orders = <<>>])
       IN PlaceLevels(m2, inp, p, 0, LevelsToPlace(m2), FALSE)

\* run_advanced_grid, after check_open_orders: the take-profit order.
GridSell(m, inp) ==
  IF m.s.position > 0 /\ m.s.sell_order_id = 0 THEN PlaceSellOrder(m, inp) ELSE m

\* run_advanced_grid: the buy levels while no position is open.
GridPlace(m, inp) ==
  IF m.exc # "none" THEN m
  ELSE IF ~m.s.position_opened /\ Len(m.s.buy_orders) < cfg.grid_orders
  THEN PlaceLevels(m, inp, inp.price, 0, LevelsToPlace(m), TRUE)
  ELSE m

\* run_advanced_grid: follow the price once a position is open.
GridFollow(m, inp) ==
  IF m.exc = "none" /\ cfg.grid_follow /\ m.s.position_opened
  THEN AdjustGrid(m, inp, inp.price) ELSE m

\* run_advanced_grid
RunAdvancedGrid(m, inp) ==
  IF ~inp.sig THEN m
  ELSE IF ~inp.priceOk THEN Raise(m, "ValueError")
  ELSE GridFollow(GridPlace(GridSell(CheckOpenOrders(m, inp), inp), inp), inp)

\* The market buy shared by martingale and DCA: place, count it into the
\* position at once, track the id, save.
BuyAndTrack(m, inp, p, q) ==
  LET m1 == PlaceOrder(m, inp, "buy", p, q)
  IN IF m1.ret = 0 THEN Raise(m1, "ValueError")
     ELSE LET m2 == UpdatePosition(m1, p, q)
          IN Save([m2 EXCEPT !.s.buy_orders = Append(m2.s.buy_orders, m1.ret),
                             !.po.buy_orders = Append(m2.s.buy_orders, m1.ret)])

RaiseToMin(q) == IF q < MinOrderSize THEN MinOrderSize ELSE q

\* run_martingale
RunMartingale(m, inp) ==
  IF ~inp.sig THEN m
  ELSE IF ~inp.priceOk THEN Raise(m, "ValueError")
  ELSE LET q == (cfg.base_quantity * Pow(100 + cfg.martingale, Len(m.s.buy_orders)))
                   \div Pow(100, Len(m.s.buy_orders))
       IN BuyAndTrack(m, inp, RInt(RoundPrice(RInt(inp.price))), RaiseToMin(q))

\* The interval test letting every cycle buy.
DcaNeverEarly(m) == FALSE

\* last_execution and (time.time() - last_execution) < dca_interval * 60: the
\* key lives exactly dca_interval minutes, so it is there iff it is too early.
DcaTooEarly(m) == m.dca

\* run_dca
RunDca(m, inp) ==
  IF ~inp.sig THEN m
  ELSE IF ~inp.priceOk THEN Raise(m, "ValueError")
  ELSE IF DcaTooEarly(m) THEN m
  ELSE LET m1 == BuyAndTrack(m, inp, RInt(RoundPrice(RInt(inp.price))), RaiseToMin(cfg.base_quantity))
       IN IF m1.exc # "none" THEN m1 ELSE [m1 EXCEPT !.dca = TRUE]

\* run_trailing_stop
RunTrailingStop(m, inp) ==
  IF ~inp.priceOk THEN Raise(m, "ValueError")
  ELSE IF ~m.s.position_opened \/ m.s.position <= 0
  THEN IF ~inp.sig THEN m
       ELSE LET q == RaiseToMin(cfg.base_quantity)
                m1 == PlaceOrder(m, inp, "buy", RInt(inp.price), q)
            IN IF m1.ret = 0 THEN Raise(m1, "ValueError")
               ELSE LET m2 == UpdatePosition(m1, RInt(inp.price), q)
                        bo == Append(m2.s.buy_orders, m1.ret)
                    IN Save([m2 EXCEPT !.s.highest_price = RInt(inp.price),
                                       !.s.position_opened = TRUE,
                                       !.s.buy_orders = bo,
                                       !.po.highest_price = RInt(inp.price),
                                       !.po.position_opened = TRUE,
                                       !.po.buy_orders = bo])
  ELSE LET tp == IF cfg.trailing_stop_percentage # 0 THEN cfg.trailing_stop_percentage
                 ELSE DefaultTrailingPercent
           h0 == IF RIsZero(m.s.highest_price) THEN m.s.avg_price ELSE m.s.highest_price
           h == RMax(h0, RInt(inp.price))
           m1 == [m EXCEPT !.s.highest_price = h, !.po.highest_price = h]
           stopPrice == Rat(h[1] * (100 - tp), h[2] * 100)
       IN IF RLe(RInt(inp.price), stopPrice)
          THEN LET m2 == PlaceOrder(m1, inp, "sell", RInt(inp.price), m1.s.position)
               IN IF m2.ret = 0 THEN Raise(m2, "ValueError") ELSE ClosePosition(m2)
          ELSE Save(m1)

\* The threshold in thousandths: the setting is in percent, 0.005 when unset.
ArbThreshold(setting) == IF setting # 0 THEN setting * 10 ELSE DefaultThresholdPermille

\* The comparison made inclusive.
SpreadAtLeast(spot, fut, th) == (fut - spot) * 1000 >= th * spot

\* spread > threshold, spread = (futures_price - spot_price) / spot_price
SpreadAbove(spot, fut, th) == (fut - spot) * 1000 > th * spot

\* spread < -threshold
SpreadBelow(spot, fut, th) == (fut - spot) * 1000 < (0 - th) * spot

\* run_arbitrage: spot price inp.price, futures price inp.fut.
RunArbitrage(m, inp) ==
  IF ~inp.priceOk THEN Raise(m, "ValueError")
  ELSE LET th == ArbThreshold(cfg.arbitrage_spread_threshold)
           q == RaiseToMin(cfg.base_quantity)
           track(mm, p, id) == LET m2 == UpdatePosition(mm, RInt(p), q)
                               IN Save([m2 EXCEPT !.s.buy_orders = Append(m2.s.buy_orders, id),
                                                  !.po.buy_orders = Append(m2.s.buy_orders, id)])
       IN IF SpreadAbove(inp.price, inp.fut, th)
          THEN LET m1 == PlaceOrder(m, inp, "buy", RInt(inp.price), q)
               IN IF m1.ret = 0 THEN Raise(m1, "ValueError")
                  ELSE LET m2 == PlaceOrder(m1, inp, "sell", RInt(inp.fut), q)
                       IN IF m2.ret = 0 THEN Raise(m2, "ValueError")
                          ELSE track(m2, inp.price, m1.ret)
          ELSE IF SpreadBelow(inp.price, inp.fut, th)
          THEN LET m1 == PlaceOrder(m, inp, "sell", RInt(inp.price), q)
               IN IF m1.ret = 0 THEN Raise(m1, "ValueError")
                  ELSE LET m2 == PlaceOrder(m1, inp, "buy", RInt(inp.fut), q)
                       IN IF m2.ret = 0 THEN Raise(m2, "ValueError")
                          ELSE track(m2, inp.fut, m2.ret)
          ELSE m

\* run_custom
RunCustom(m, inp) == Raise(m, "NotImplementedError")

\* run_strategy: dispatch on the in-memory bot's trade_mode.
RunStrategy(m, inp) ==
  CASE m.bot.trade_mode = "order_grid" -> RunAdvancedGrid(m, inp)
    [] m.bot.trade_mode = "martingale" -> RunMartingale(m, inp)
    [] m.bot.trade_mode = "dca" -> RunDca(m, inp)
    [] m.bot.trade_mode = "trailing_stop" -> RunTrailingStop(m, inp)
    [] m.bot.trade_mode = "arbitrage" -> RunArbitrage(m, inp)
    [] m.bot.trade_mode = "custom" -> RunCustom(m, inp)
    [] OTHER -> Raise(m, "ValueError")

RECURSIVE RunCombined(_, _, _)
RunCombined(m, inp, modes) ==
  IF modes = <<>> \/ m.exc # "none" THEN m
  ELSE RunCombined(RunStrategy([m EXCEPT !.bot.trade_mode = Head(modes)], inp), inp, Tail(modes))

\* A stop-loss exit that closes the position whether or not the sale was taken.
StopLossClosesAnyway(m, inp) ==
  IF cfg.stop_loss = 0 THEN m
  ELSE IF ~inp.priceOk THEN m
  ELSE LET slPrice == Rat(m.s.avg_price[1] * (100 - cfg.stop_loss), m.s.avg_price[2] * 100)
       IN IF RLe(RInt(inp.price), slPrice)
          THEN LET m1 == ClosePosition(PlaceOrder(m, inp, "sell", RInt(inp.price), m.s.position))
               IN IF m1.ret = 0 THEN Raise(m1, "ValueError") ELSE m1
          ELSE m

\* check_stop_loss
CheckStopLoss(m, inp) ==
  IF cfg.stop_loss = 0 THEN m
  ELSE IF ~inp.priceOk THEN m
  ELSE LET slPrice == Rat(m.s.avg_price[1] * (100 - cfg.stop_loss), m.s.avg_price[2] * 100)
       IN IF RLe(RInt(inp.price), slPrice)
          THEN LET m1 == PlaceOrder(m, inp, "sell", RInt(inp.price), m.s.position)
               IN IF m1.ret = 0 THEN Raise(m1, "ValueError") ELSE ClosePosition(m1)
          ELSE m

\* The deal-count condition: stop_after_deals is a boolean, compared as a number.
DealLimitReached(b) ==
  cfg.stop_after_deals /\ b.deals_completed >= (IF cfg.stop_after_deals THEN 1 ELSE 0)

\* execute()'s margin pre-check compares the category with 'futures'.
MarginCheckApplies == Category = "futures"

\* execute(): the combined modes in turn, or the one trade mode.
RunModes(m, inp) ==
  IF cfg.combined_strategies # <<>>
  THEN RunCombined(m, inp, cfg.combined_strategies)
  ELSE RunStrategy(m, inp)

\* execute(): the stop-loss post-check.
StopLossPostCheck(m, inp) ==
  IF m.exc = "none" /\ cfg.stop_loss # 0 /\ m.s.position > 0 THEN CheckStopLoss(m, inp) ELSE m

\* execute(): the deal-limit check that ends in self.stop_bot().
DealLimitCheck(m) ==
  IF m.exc = "none" /\ DealLimitReached(m.bot) THEN [m EXCEPT !.stop = TRUE] ELSE m

\* execute(): balance query, margin pre-check, the mode(s), stop-loss, deal limit.
Execute(m, inp) ==
  IF ~inp.balOk THEN Raise(m, "ValueError")
  ELSE IF MarginCheckApplies /\ inp.margin THEN [m EXCEPT !.stop = TRUE]
  ELSE DealLimitCheck(StopLossPostCheck(RunModes(m, inp), inp))

\* ------------------------------------------------------------- the scheduler
Running == {"checked", "loaded", "stop1", "stop2", "stop3", "finally"}

\* The check at the start of the cycle letting every bot through.
AlwaysActive(b) == TRUE

\* bot.status != 'active' or not bot.is_running, negated.
ActiveBot(b) == b.is_running /\ b.status = "active"

ModeSet ==
  IF cfg.combined_strategies # <<>>
  THEN { cfg.combined_strategies[i] : i \in 1..Len(cfg.combined_strategies) }
  ELSE { cfg.trade_mode }

FilledIds == { o \in DOMAIN orders : orders[o].status = "filled" }

\* What the outside world answers during one cycle.  Answers nothing reads
\* are fixed, so that equal cycles are not enumerated twice.
Inputs ==
  LET base == [ sig |-> FALSE, balOk |-> TRUE, margin |-> FALSE, priceOk |-> TRUE,
                accept |-> 0, respOk |-> TRUE, seen |-> {}, newestFirst |-> FALSE,
                cancelOk |-> TRUE,
                price |-> 1, fut |-> 1 ]
  IN { [base EXCEPT !.price = pr, !.fut = pr] : pr \in Prices }
     \cup { [base EXCEPT !.sig = TRUE, !.balOk = FALSE] }
     \cup { [base EXCEPT !.sig = TRUE, !.priceOk = FALSE, !.margin = mg] :
              mg \in (IF cfg.strategy = "futures" THEN BOOLEAN ELSE {FALSE}) }
     \cup { [base EXCEPT !.sig = TRUE, !.margin = mg, !.accept = ac, !.respOk = ro,
                         !.seen = sn, !.newestFirst = nf, !.cancelOk = co, !.price = pr,
                         !.fut = IF "arbitrage" \in ModeSet THEN fu ELSE pr] :
              pr \in Prices,
              mg \in (IF cfg.strategy = "futures" THEN BOOLEAN ELSE {FALSE}),
              ac \in {0, 1, MaxOrders},
              ro \in (IF "order_grid" \in ModeSet THEN BOOLEAN ELSE {TRUE}),
              sn \in (IF "order_grid" \in ModeSet THEN SUBSET FilledIds ELSE {{}}),
              nf \in (IF "order_grid" \in ModeSet THEN BOOLEAN ELSE {FALSE}),
              co \in (IF "order_grid" \in ModeSet /\ cfg.grid_follow THEN BOOLEAN ELSE {TRUE}),
              fu \in (IF "arbitrage" \in ModeSet THEN Prices ELSE {1}) }

Machine(t) ==
  [ bot |-> tasks[t].bot, po |-> tasks[t].po, s |-> tasks[t].s,
    dbot |-> bot, dpos |-> pos, orders |-> orders, nextId |-> nextId,
    dca |-> dcaLast, placed |-> tasks[t].placed, exc |-> "none", stop |-> FALSE, ret |-> 0 ]

\* A linear back-off: 60, 120, 180 seconds.
RetryCountdownLinear(retries) == RetryBase * (retries + 1)

\* self.retry(countdown = 60 * 2 ** retries, exc = e) with max_retries = 3.
RetryCountdown(retries) == RetryBase * Pow(2, retries)

RetryOutcome(retries) ==
  IF retries < MaxRetries
  THEN [ next |-> "retry", delay |-> RetryCountdown(retries), outcome |-> "retry" ]
  ELSE [ next |-> "none", delay |-> 0, outcome |-> "exhausted" ]

\* task_interval passed on as it is, without the factor 60.
IntervalMinutes == cfg.task_interval

\* countdown of the next tick: task_interval minutes, in seconds.
IntervalSeconds == cfg.task_interval * 60

\* tasks.py after execute(): the deal-limit branch calls stop_bot.delay, an
\* attribute the plain function stop_bot does not have, so it raises into the
\* generic handler; else the next tick is sent when the in-memory bot is active.
PostOutcome(b, retries) ==
  IF DealLimitReached(b) THEN RetryOutcome(retries)
  ELSE IF ActiveBot(b)
       THEN [ next |-> "tick", delay |-> IntervalSeconds, outcome |-> "success" ]
       ELSE [ next |-> "none", delay |-> 0, outcome |-> "success" ]

\* BotStartView.post
StartView ==
  /\ bot.status # "active"
  /\ starts < MaxStarts
  /\ starts' = starts + 1
  /\ \E t \in Tasks :
       /\ tasks[t].pc = "idle"
       /\ \A u \in Tasks : u < t => tasks[u].pc # "idle"
       /\ tasks' = [tasks EXCEPT ![t] = [IdleTask EXCEPT !.pc = "pending"]]
  /\ bot' = [bot EXCEPT !.status = "active", !.is_running = TRUE]
  /\ UNCHANGED <<cfg, pos, lock, orders, nextId, dcaLast, call>>

\* The worker takes the message and reads the lock (cache.get).
Begin(t) ==
  /\ tasks[t].pc = "pending"
  /\ tasks' = [tasks EXCEPT ![t] =
       IF lock THEN [@ EXCEPT !.pc = "finally", !.outcome = "skipped_locked", !.next = "none"]
       ELSE [@ EXCEPT !.pc = "checked", !.outcome = "none", !.next = "none"]]
  /\ UNCHANGED <<cfg, bot, pos, lock, orders, nextId, dcaLast, starts, call>>

\* cache.set, Bot.objects.get, the active check, TradingStrategy(bot).
Acquire(t) ==
  /\ tasks[t].pc = "checked"
  /\ IF ActiveBot(bot)
     THEN /\ lock' = TRUE
          /\ tasks' = [tasks EXCEPT ![t] =
               [@ EXCEPT !.pc = "loaded", !.bot = bot, !.po = pos, !.s = InitStrategy(pos)]]
     ELSE /\ lock' = FALSE
          /\ tasks' = [tasks EXCEPT ![t] =
               [@ EXCEPT !.pc = "finally", !.bot = bot, !.outcome = "skipped_inactive"]]
  /\ UNCHANGED <<cfg, bot, pos, orders, nextId, dcaLast, starts, call>>

\* check_signal, execute() up to a stop_bot() call, and, when no stop is
\* pending, the rest of the handler (deal limit, next tick, except clauses).
Body(t) ==
  /\ tasks[t].pc = "loaded"
  /\ \E inp \in Inputs :
     \E m \in { IF inp.sig THEN Execute(Machine(t), inp) ELSE Machine(t) } :
       LET out == IF m.exc # "none" THEN RetryOutcome(tasks[t].retries)
                  ELSE PostOutcome(m.bot, tasks[t].retries)
       IN /\ bot' = m.dbot
          /\ pos' = m.dpos
          /\ orders' = m.orders
          /\ nextId' = m.nextId
          /\ dcaLast' = m.dca
          /\ tasks' = [tasks EXCEPT ![t] =
               [@ EXCEPT !.bot = m.bot, !.po = m.po, !.s = m.s, !.placed = m.placed,
                         !.signal = inp.sig, !.price = inp.price,
                         !.margin = inp.sig /\ inp.balOk /\ inp.margin,
                         !.stopcond = m.exc = "none"
                                        /\ (DealLimitReached(m.bot)
                                            \/ (inp.sig /\ inp.balOk /\ inp.margin)),
                         !.exc = m.exc, !.connOk = inp.balOk /\ inp.priceOk,
                         !.pc = IF m.exc = "none" /\ m.stop THEN "stop1" ELSE "finally",
                         !.next = IF m.exc = "none" /\ m.stop THEN "none" ELSE out.next,
                         !.delay = IF m.exc = "none" /\ m.stop THEN 0 ELSE out.delay,
                         !.outcome = IF m.exc = "none" /\ m.stop THEN "none" ELSE out.outcome]]
  /\ UNCHANGED <<cfg, lock, starts, call>>

\* The three steps of a stop, by name.
StopOp(m, inp, op) ==
  CASE op = "inactive" -> SaveBot([m EXCEPT !.bot.status = "stopped", !.bot.is_running = FALSE])
    [] op = "cancel" -> CancelAllOrders(m, inp)
    [] op = "zero" -> ClosePosition(m)

\* The order of the module-level function stop_bot(bot_id).
StopBotFunctionOrder == <<"cancel", "inactive", "zero">>

\* TradingStrategy.stop_bot: the order of its steps.
StopBotMethodOrder == <<"inactive", "cancel", "zero">>

StopPc(k) == CASE k = 1 -> "stop1" [] k = 2 -> "stop2" [] k = 3 -> "stop3"

\* Step k of TradingStrategy.stop_bot inside execute(); after the last step
\* execute() returns and the handler goes on as in Body.
StopStep(t, k) ==
  /\ tasks[t].pc = StopPc(k)
  /\ \E co \in BOOLEAN :
     \E m \in { StopOp(Machine(t), [ cancelOk |-> co ], StopBotMethodOrder[k]) } :
       LET out == PostOutcome(m.bot, tasks[t].retries)
       IN /\ bot' = m.dbot
          /\ pos' = m.dpos
          /\ orders' = m.orders
          /\ tasks' = [tasks EXCEPT ![t] =
               [@ EXCEPT !.bot = m.bot, !.po = m.po, !.s = m.s,
                         !.stopDone = Append(@, StopBotMethodOrder[k]),
                         !.pc = IF k < 3 THEN StopPc(k + 1) ELSE "finally",
                         !.next = IF k < 3 THEN "none" ELSE out.next,
                         !.delay = IF k < 3 THEN 0 ELSE out.delay,
                         !.outcome = IF k < 3 THEN "none" ELSE out.outcome]]
  /\ UNCHANGED <<cfg, lock, nextId, dcaLast, starts, call>>

\* The handler ending in self.retry like the general one.
SoftTimeoutRetried == "retry"

\* except SoftTimeLimitExceeded ends without self.retry and without a next tick.
SoftTimeoutNext == "none"

\* except SoftTimeLimitExceeded: logged and reported, no retry.
SoftTimeout(t) ==
  /\ tasks[t].pc \in {"loaded", "stop1", "stop2", "stop3"}
  /\ tasks' = [tasks EXCEPT ![t] =
       [@ EXCEPT !.pc = "finally", !.next = SoftTimeoutNext, !.delay = 0,
                 !.outcome = "soft_timeout"]]
  /\ UNCHANGED <<cfg, bot, pos, lock, orders, nextId, dcaLast, starts, call>>

\* The message a finished invocation leaves in the broker.
Resend(tk) ==
  IF tk.next = "none" THEN IdleTask
  ELSE [IdleTask EXCEPT !.pc = "pending", !.delay = tk.delay,
                        !.retries = IF tk.next = "retry" THEN tk.retries + 1 ELSE 0]

\* The finally clause leaving the key as it is.
FinallyKeeps(l) == l

\* cache.delete(task_key): the key is absent afterwards.
FinallyLock(l) == FALSE

\* finally: cache.delete(task_key), on every path that entered the try block.
Finish(t) ==
  /\ tasks[t].pc = "finally"
  /\ lock' = FinallyLock(lock)
  /\ tasks' = [tasks EXCEPT ![t] = Resend(@)]
  /\ UNCHANGED <<cfg, bot, pos, orders, nextId, dcaLast, starts, call>>

\* time_limit = 60: the worker process is killed, no handler and no finally run.
Kill(t) ==
  /\ tasks[t].pc \in Running
  /\ tasks' = [tasks EXCEPT ![t] = Resend(@)]
  /\ UNCHANGED <<cfg, bot, pos, lock, orders, nextId, dcaLast, starts, call>>

\* A key set without a lifetime: it stays.
NeverExpires(l) == l

\* cache.set(task_key, True, timeout=60): the key is gone after 60 s.
ExpiredLock(l) == FALSE

\* The lock's 60 s TTL runs out; a live cycle is killed before that.
LockExpire ==
  /\ lock
  /\ \A t \in Tasks : tasks[t].pc \notin Running
  /\ lock' = ExpiredLock(lock)
  /\ UNCHANGED <<cfg, bot, pos, tasks, orders, nextId, dcaLast, starts, call>>

\* --------------------------------------------------------------- the venue
\* A resting order fills (the market reached its price between two cycles).
Fill(o) ==
  /\ o \in DOMAIN orders
  /\ orders[o].status = "open"
  /\ orders' = [orders EXCEPT ![o].status = "filled"]
  /\ UNCHANGED <<cfg, bot, pos, lock, tasks, nextId, dcaLast, starts, call>>

\* The DCA cache key runs out after dca_interval minutes.
DcaExpire ==
  /\ dcaLast
  /\ dcaLast' = FALSE
  /\ UNCHANGED <<cfg, bot, pos, lock, tasks, orders, nextId, starts, call>>

Next ==
  \/ StartView
  \/ \E t \in Tasks : Begin(t)
  \/ \E t \in Tasks : Acquire(t)
  \/ \E t \in Tasks : Body(t)
  \/ \E t \in Tasks : \E k \in 1..3 : StopStep(t, k)
  \/ \E t \in Tasks : SoftTimeout(t)
  \/ \E t \in Tasks : Finish(t)
  \/ \E t \in Tasks : Kill(t)
  \/ LockExpire
  \/ \E o \in OrderIds : Fill(o)
  \/ DcaExpire

Spec == Init /\ [][Next]_vars

\* The behaviours in which no worker is killed by the hard time limit (and so
\* no lock is left behind to expire): every invocation ends through its own
\* return, except clauses and finally clause.
NextHandled ==
  \/ StartView
  \/ \E t \in Tasks : Begin(t)
  \/ \E t \in Tasks : Acquire(t)
  \/ \E t \in Tasks : Body(t)
  \/ \E t \in Tasks : \E k \in 1..3 : StopStep(t, k)
  \/ \E t \in Tasks : SoftTimeout(t)
  \/ \E t \in Tasks : Finish(t)
  \/ \E o \in OrderIds : Fill(o)
  \/ DcaExpire

SpecHandled == Init /\ [][NextHandled]_vars

\* Time passes, so a key with a lifetime does expire, and a worker that has
\* reached the finally clause executes it.
FairExpiry ==
  /\ WF_vars(LockExpire)
  /\ WF_vars(\E t \in Tasks : Finish(t))

SpecExpiry == Init /\ [][Next]_vars /\ FairExpiry

\* ------------------------------------------- ExchangeAPI.create_order alone
\* Quantities are integers in units of 0.001.  A venue that reports a
\* non-positive step or minimum (0 here) gets the defaults.
EffStep(st) == IF st <= 0 THEN DefaultPrecision ELSE st

EffMin(mn) == IF mn <= 0 THEN DefaultMinQty ELSE mn

\* qty / base_precision is a float division: for an exact multiple the
\* quotient can fall just below the integer, and math.floor then gives one
\* step less.
FloorOutcomes(q, st) ==
  {FloorToStep(q, st)} \cup (IF q % st = 0 /\ q >= st THEN {FloorToStep(q, st) - st} ELSE {})

CreateOrderCalls ==
  [ op : {"create_order"}, qty : 0..MaxQty, step : 0..MaxStep, min : 0..MaxStep,
    infoOk : BOOLEAN, done : {FALSE}, sent : {FALSE}, sentQty : {0}, error : {FALSE} ]

InitCreateOrder == Idle /\ call \in CreateOrderCalls

\* create_order: instrument info, floor to the step, minimum check, request.
CreateOrder ==
  /\ call.op = "create_order"
  /\ ~call.done
  /\ \E fq \in FloorOutcomes(call.qty, EffStep(call.step)) :
       call' = IF ~call.infoOk \/ fq < EffMin(call.min)
               THEN [call EXCEPT !.done = TRUE, !.error = TRUE]
               ELSE [call EXCEPT !.done = TRUE, !.sent = TRUE, !.sentQty = fq]
  /\ UNCHANGED <<cfg, bot, pos, lock, tasks, orders, nextId, dcaLast, starts>>

SpecCreateOrder == InitCreateOrder /\ [][CreateOrder]_vars

\* --------------------------------------------------- check_signal alone
\* A candle window is its length n and what the indicator library computes
\* on it (cur) and on the window one candle earlier (prev): two numbers each.
\* Every indicator needs Period candles (MA crossover one more); the MACD
\* signal line needs SignalPeriod values of the MACD line and is NaN before.
\* Results: "true", "false", or "raise" for an exception leaving check_signal.
\* Python's None and float NaN among the numbers 0..MaxVal.
None == 0 - 2

NaN == 0 - 1

Vals == 0..MaxVal

Windows == [ n : 0..MaxWindow, cur : Vals \X Vals, prev : Vals \X Vals ]

SignalSpecs ==
  [ type : {"rsi", "cci", "ma_crossover"}, condition : {"none"} ]
    \cup [ type : {"macd"}, condition : {"crossover", "crossunder"} ]
    \cup [ type : {"pivot_points"}, condition : {"above_resistance", "below_support"} ]

Bool(b) == IF b THEN "true" ELSE "false"

\* a < b, a > b, a <= b, a >= b as Python evaluates them.
Lt(a, b) ==
  IF a = None \/ b = None THEN "raise"
  ELSE IF a = NaN \/ b = NaN THEN "false" ELSE Bool(a < b)

Gt(a, b) == Lt(b, a)

Le(a, b) ==
  IF a = None \/ b = None THEN "raise"
  ELSE IF a = NaN \/ b = NaN THEN "false" ELSE Bool(a <= b)

Ge(a, b) == Le(b, a)

\* x and y: y is evaluated only when x is true.
AndThen(x, y) == IF x = "true" THEN y ELSE x

\* The guard dropped: the value is never taken for None.
NeverNone(v) == FALSE

\* if rsi is None: return False (and the same guard of the other indicators)
IsNone(v) == v = None

\* calculate_rsi / calculate_cci: None below the period.
calculate_rsi(n, v) == IF n < Period THEN None ELSE v[1]

\* calculate_macd on a window of n closes: <<macd, signal>>.
calculate_macd(n, v) ==
  IF n < Period THEN <<None, None>>
  ELSE <<v[1], IF n < Period + SignalPeriod - 1 THEN NaN ELSE v[2]>>

\* calculate_ma_crossover: <<short, long, prev_short, prev_long>>.
calculate_ma_crossover(w) ==
  IF w.n < Period + 1 THEN <<None, None, None, None>>
  ELSE <<w.cur[1], w.cur[2], w.prev[1], w.prev[2]>>

\* calculate_pivot_points: <<r1, s1>>, the last close being cur[1].
calculate_pivot_points(w) ==
  IF w.n < Period THEN <<None, None>> ELSE <<w.cur[2], w.prev[2]>>

\* closes[:-1]
MinusLast(n) == IF n = 0 THEN 0 ELSE n - 1

RsiBelow(w) ==
  LET rsi == calculate_rsi(w.n, w.cur)
  IN IF IsNone(rsi) THEN "false" ELSE Lt(rsi, 1)

MaCrossed(w) ==
  LET ma == calculate_ma_crossover(w)
  IN IF \E i \in 1..4 : IsNone(ma[i]) THEN "false"
     ELSE AndThen(Gt(ma[1], ma[2]), Le(ma[3], ma[4]))

PivotBroken(sig, w) ==
  LET pp == calculate_pivot_points(w)
  IN IF IsNone(pp[1]) \/ IsNone(pp[2]) THEN "false"
     ELSE IF sig.condition = "above_resistance" THEN Gt(w.cur[1], pp[1]) ELSE Lt(w.cur[1], pp[2])

\* check_single_signal, the macd branch.
SingleMacd(sig, w) ==
  LET now == calculate_macd(w.n, w.cur)
      before == calculate_macd(MinusLast(w.n), w.prev)
  IN IF IsNone(now[1]) \/ IsNone(now[2]) THEN "false"
     ELSE IF IsNone(before[1]) \/ IsNone(before[2]) THEN "false"
     ELSE IF sig.condition = "crossover"
          THEN AndThen(Gt(now[1], now[2]), Le(before[1], before[2]))
     ELSE IF sig.condition = "crossunder"
          THEN AndThen(Lt(now[1], now[2]), Ge(before[1], before[2]))
     ELSE "false"

\* check_combined_signal, the macd branch.
CombinedMacd(sig, w) ==
  LET now == calculate_macd(w.n, w.cur)
      before == calculate_macd(MinusLast(w.n), w.prev)
  IN IF IsNone(now[1]) \/ IsNone(now[2]) THEN "false"
     ELSE IF w.n < 2 THEN "false"
     ELSE LET crossover == AndThen(Gt(now[1], now[2]), Le(before[1], before[2]))
          IN IF crossover = "raise" \/ sig.condition = "crossover" THEN crossover ELSE "false"

\* check_single_signal(signal_type, signal_params) on the window w.
check_single_signal(sig, w) ==
  IF w.n = 0 THEN "false"
  ELSE CASE sig.type \in {"rsi", "cci"} -> RsiBelow(w)
         [] sig.type = "macd" -> SingleMacd(sig, w)
         [] sig.type = "ma_crossover" -> MaCrossed(w)
         [] sig.type = "pivot_points" -> PivotBroken(sig, w)
         [] OTHER -> "false"

\* One member inside check_combined_signal's loop.
CombinedMember(sig, w) ==
  CASE sig.type = "rsi" -> RsiBelow(w)
    [] sig.type = "macd" -> CombinedMacd(sig, w)
    [] sig.type = "ma_crossover" -> MaCrossed(w)
    [] sig.type = "pivot_points" -> PivotBroken(sig, w)
    [] OTHER -> check_single_signal(sig, w)

\* all(results); an exception in a member leaves the loop at once.
RECURSIVE CombinedLoop(_, _, _)
CombinedLoop(signals, w, acc) ==
  IF signals = <<>> THEN acc
  ELSE LET r == CombinedMember(Head(signals), w)
       IN IF r = "raise" THEN "raise"
          ELSE CombinedLoop(Tail(signals), w, IF r = "true" THEN acc ELSE "false")

check_combined_signal(signals, w) ==
  IF w.n = 0 THEN "false" ELSE CombinedLoop(signals, w, "true")

check_signal(c) ==
  IF c.combined_signals # <<>> THEN check_combined_signal(c.combined_signals, c.window)
  ELSE check_single_signal(c.signal, c.window)

SignalCalls ==
  [ op : {"check_signal"}, signal : SignalSpecs, combined_signals : {<<>>},
    window : Windows, done : {FALSE}, result : {"none"} ]
    \cup [ op : {"check_signal"}, signal : {[type |-> "rsi", condition |-> "none"]},
           combined_signals : { <<a>> : a \in SignalSpecs }
                                \cup { <<a, b>> : a \in SignalSpecs, b \in SignalSpecs },
           window : Windows, done : {FALSE}, result : {"none"} ]

InitSignal == Idle /\ cfg.trade_mode = "custom" /\ call \in SignalCalls

CheckSignal ==
  /\ call.op = "check_signal"
  /\ ~call.done
  /\ call' = [call EXCEPT !.done = TRUE, !.result = check_signal(call)]
  /\ UNCHANGED <<cfg, bot, pos, lock, tasks, orders, nextId, dcaLast, starts>>

SpecSignal == InitSignal /\ [][CheckSignal]_vars

\* ---------------------------------------------------- run_arbitrage alone
\* Prices in units fine enough to stand on either side of the threshold; a
\* price of 0 is one get_current_price could not deliver.  The threshold
\* setting is in percent, 0 for unset.
ArbPrices == {0} \cup ((ArbSpot - ArbRange)..(ArbSpot + ArbRange))

ArbitrageCalls ==
  [ op : {"run_arbitrage"}, spot : {0, ArbSpot}, fut : ArbPrices, threshold : {0, 1},
    qty : {1}, done : {FALSE}, error : {FALSE}, sent : {<<>>} ]

Request(category, side, price, qty) ==
  [ category |-> category, side |-> side, price |-> price, qty |-> qty ]

\* The orders run_arbitrage places, in order.
ArbitrageOrders(c) ==
  IF SpreadAbove(c.spot, c.fut, ArbThreshold(c.threshold))
  THEN <<Request("spot", "buy", c.spot, c.qty), Request("linear", "sell", c.fut, c.qty)>>
  ELSE IF SpreadBelow(c.spot, c.fut, ArbThreshold(c.threshold))
  THEN <<Request("spot", "sell", c.spot, c.qty), Request("linear", "buy", c.fut, c.qty)>>
  ELSE <<>>

InitArbitrage == Idle /\ cfg.trade_mode = "arbitrage" /\ call \in ArbitrageCalls

RunArbitrageCall ==
  /\ call.op = "run_arbitrage"
  /\ ~call.done
  /\ call' = IF call.spot = 0 \/ call.fut = 0
             THEN [call EXCEPT !.done = TRUE, !.error = TRUE]
             ELSE [call EXCEPT !.done = TRUE, !.sent = ArbitrageOrders(call)]
  /\ UNCHANGED <<cfg, bot, pos, lock, tasks, orders, nextId, dcaLast, starts>>

SpecArbitrage == InitArbitrage /\ [][RunArbitrageCall]_vars

\* ------------------------------------------------- the venue calls' limiter
\* One worker process within one period of the limiter (one second).  Each
\* function decorated with @sleep_and_retry @limits(calls=10, period=1) has
\* its own count of calls; the requests TradingStrategy makes itself
\* (get_current_price, check_open_orders, cancel_order) go through no limiter.
\* sent counts the HTTP requests that left in the current period.
LimitedFunctions == {"create_order", "get_klines"}

\* HTTP requests one call makes: create_order asks for the instrument and
\* then posts the order.
RequestsOf(f) == IF f = "create_order" THEN 2 ELSE 1

InitRequests ==
  /\ Idle /\ cfg.trade_mode = "order_grid"
  /\ call = [ op |-> "requests", period |-> 1,
               calls |-> [ f \in LimitedFunctions |-> 0 ], sent |-> 0 ]

\* A decorated function is called: it runs when its own count is below the
\* ceiling, otherwise sleep_and_retry sleeps until PeriodElapsed.
LimitedCall(f) ==
  /\ call.op = "requests"
  /\ call.calls[f] < RateLimit
  /\ call.sent + RequestsOf(f) <= MaxSent
  /\ call' = [call EXCEPT !.calls[f] = @ + 1, !.sent = @ + RequestsOf(f)]
  /\ UNCHANGED <<cfg, bot, pos, lock, tasks, orders, nextId, dcaLast, starts>>

\* get_current_price, check_open_orders, cancel_order: requests.get at once.
DirectRequest ==
  /\ call.op = "requests"
  /\ call.sent < MaxSent
  /\ call' = [call EXCEPT !.sent = @ + 1]
  /\ UNCHANGED <<cfg, bot, pos, lock, tasks, orders, nextId, dcaLast, starts>>

\* The period is over: the counts start again.
PeriodElapsed ==
  /\ call.op = "requests"
  /\ call.period < MaxPeriods
  /\ call' = [call EXCEPT !.period = @ + 1,
                          !.calls = [ f \in LimitedFunctions |-> 0 ], !.sent = 0]
  /\ UNCHANGED <<cfg, bot, pos, lock, tasks, orders, nextId, dcaLast, starts>>

NextRequests ==
  \/ \E f \in LimitedFunctions : LimitedCall(f)
  \/ DirectRequest
  \/ PeriodElapsed

SpecRequests == InitRequests /\ [][NextRequests]_vars

\* --------------------------------------------- the size of one grid level
\* Quantities are integers in units of the smallest step; martingale is in
\* percent.
Martingales == {0, 50, 100}

\* base_qty * (1 + self.martingale) ** level_index
LevelSize(base, mart, i) == Rat(base * Pow(100 + mart, i), Pow(100, i))

\* if qty < min_order_size: qty = min_order_size
RaisedToMinimum(q, min) == IF RLe(RInt(min), q) THEN q ELSE RInt(min)

\* math.floor(qty / base_precision) * base_precision in floating point: an
\* exact multiple can come out one step lower.
QuantityOutcomes(q, st) ==
  LET f == (q[1] \div (q[2] * st)) * st
  IN {f} \cup (IF q[2] = 1 /\ q[1] % st = 0 /\ q[1] >= st THEN {f - st} ELSE {})

\* calculate_quantity(level_index) for the instrument's minimum and step.
calculate_quantity(base, mart, i, min, st) ==
  QuantityOutcomes(RaisedToMinimum(LevelSize(base, mart, i), min), st)

QuantityCalls ==
  [ op : {"grid_level"}, base : 1..MaxBase, mart : Martingales, i : 0..MaxLevel,
    min : 1..MaxStep, step : 1..MaxStep, done : {FALSE}, qty : {0}, placed : {FALSE} ]

InitQuantity == Idle /\ cfg.trade_mode = "custom" /\ call \in QuantityCalls

\* One turn of run_advanced_grid's loop: calculate_quantity(i), the test
\* against the minimum, place_order for the level.
GridLevel ==
  /\ call.op = "grid_level"
  /\ ~call.done
  /\ \E q \in calculate_quantity(call.base, call.mart, call.i, call.min, call.step) :
       call' = [call EXCEPT !.done = TRUE, !.qty = q, !.placed = ~(q < call.min)]
  /\ UNCHANGED <<cfg, bot, pos, lock, tasks, orders, nextId, dcaLast, starts>>

SpecQuantity == InitQuantity /\ [][GridLevel]_vars

\* ------------------------------------------------- calculate_buy_levels
\* Prices and ticks are integers in one unit; grid_spacing and grid_overlap
\* are the settings' percentages (the serializer admits spacing > 0,
\* overlap >= 0, grid_orders >= 1).
Spacings == {10, 25, 50}

Overlaps == {0, 100}

\* (i + 1) ** 1.2 in thousandths, for i = 0, 1, 2.
LogFactor(i) == <<1000, 2297, 3737>>[i + 1]

\* round_price(price, tick_size) for the price n / d.
round_price(n, d, tick) == (n \div (d * tick)) * tick

\* Level i (0-based) of calculate_buy_levels, rounded to the tick.
buy_level(price, tick, spacing, overlap, log, i) ==
  IF log
  THEN round_price(price * (100000 - spacing * LogFactor(i)), 100000, tick)
  ELSE round_price(price * (10000 - spacing * (100 + overlap) * (i + 1)), 10000, tick)

calculate_buy_levels(price, tick, spacing, overlap, log, n) ==
  [ k \in 1..n |-> buy_level(price, tick, spacing, overlap, log, k - 1) ]

BuyLevelsCalls ==
  [ op : {"buy_levels"}, price : 1..MaxGridPrice, tick : 1..MaxStep, spacing : Spacings,
    overlap : Overlaps, log : BOOLEAN, n : 1..MaxGridOrders, done : {FALSE},
    levels : {<<>>} ]

InitBuyLevels == Idle /\ cfg.trade_mode = "custom" /\ call \in BuyLevelsCalls

BuyLevels ==
  /\ call.op = "buy_levels"
  /\ ~call.done
  /\ call' = [call EXCEPT !.done = TRUE,
                          !.levels = calculate_buy_levels(call.price, call.tick, call.spacing,
                                                          call.overlap, call.log, call.n)]
  /\ UNCHANGED <<cfg, bot, pos, lock, tasks, orders, nextId, dcaLast, starts>>

SpecBuyLevels == InitBuyLevels /\ [][BuyLevels]_vars

\* ------------------------------------------------------ update_position
\* A position built by successive buys from an empty one: n buys so far, the
\* position before the last buy (prevQ, prevA), the last buy (p, q), and the
\* sums of q and of p * q over all the buys.
NoBuys ==
  [ op |-> "update_position", n |-> 0, Q |-> 0, A |-> RZero, prevQ |-> 0, prevA |-> RZero,
    p |-> 0, q |-> 0, sumQ |-> 0, sumPQ |-> 0 ]

InitPosition == Idle /\ cfg.trade_mode = "custom" /\ call = NoBuys

\* update_position(p, q) on the position (call.Q, call.A).
UpdatePositionCall ==
  /\ call.op = "update_position"
  /\ call.n < MaxBuys
  /\ \E p \in 1..MaxBuyPrice, q \in 1..MaxBuyQty :
       call' = [call EXCEPT !.n = @ + 1,
                            !.Q = NewQuantity(call.Q, q),
                            !.A = WeightedAverage(call.Q, call.A, RInt(p), q),
                            !.prevQ = call.Q, !.prevA = call.A, !.p = p, !.q = q,
                            !.sumQ = @ + q, !.sumPQ = @ + p * q]
  /\ UNCHANGED <<cfg, bot, pos, lock, tasks, orders, nextId, dcaLast, starts>>

SpecPosition == InitPosition /\ [][UpdatePositionCall]_vars

\* ------------------------------------------- a price rounded more than once
\* The strategy rounds a price (round_price), place_order rounds the result
\* and create_order rounds it a third time, each as
\* math.floor(price / tick_size) * tick_size in floating point, where the
\* quotient of an exact multiple can fall just below the integer
\* (0.59 / 0.01 = 58.99999999999999).  Prices are integers in one unit.
InitRoundPrice ==
  /\ Idle /\ cfg.trade_mode = "custom"
  /\ call \in [ op : {"round_price"}, price : 1..MaxTickPrice, tick : 1..MaxStep,
                 rounded : {<<>>} ]

\* One more rounding of the price as rounded so far.
RoundAgain ==
  /\ call.op = "round_price"
  /\ Len(call.rounded) < MaxRoundings
  /\ \E r \in FloorOutcomes(IF call.rounded = <<>> THEN call.price
                              ELSE call.rounded[Len(call.rounded)], call.tick) :
       call' = [call EXCEPT !.rounded = Append(@, r)]
  /\ UNCHANGED <<cfg, bot, pos, lock, tasks, orders, nextId, dcaLast, starts>>

SpecRoundPrice == InitRoundPrice /\ [][RoundAgain]_vars

\* ------------------------------------------------------------ the properties
\* The part of a cycle between taking the lock and the finally clause.
InCycle == {"loaded", "stop1", "stop2", "stop3"}

\* A cycle that has reached its finally clause after running its body.
Ended(t) == tasks[t].pc = "finally" /\ tasks[t].outcome \notin {"skipped_locked", "skipped_inactive"}

FullStop == <<"inactive", "cancel", "zero">>

\* C1: at most one cycle of the bot runs at any moment: two invocations are
\* never both between taking the lock and the finally clause.
C1_OneCycleAtATime ==
  \A t, u \in Tasks : (t # u /\ tasks[t].pc \in InCycle) => tasks[u].pc \notin InCycle

\* C2: a cycle of a futures bot whose balance query reports a margin breach
\* ends with the stop carried out and with no order placed.
C2_MarginBreachStops ==
  \A t \in Tasks :
    (Ended(t) /\ cfg.strategy = "futures" /\ tasks[t].margin /\ tasks[t].exc = "none")
      => (tasks[t].placed = 0 /\ tasks[t].stopDone = FullStop)

C5_StopConditionStops ==
  \A t \in Tasks :
    (Ended(t) /\ tasks[t].stopcond /\ tasks[t].outcome # "soft_timeout")
      => (tasks[t].stopDone = FullStop /\ tasks[t].next = "none")

\* C6: a failed cycle is retried after 60 * 2^k seconds, k the number of
\* retries so far (0, 1, 2); after three retries no further retry is sent.
C6_RetryBackoff ==
  \A t \in Tasks :
    /\ tasks[t].retries \in 0..3
    /\ (tasks[t].pc = "pending" /\ tasks[t].retries > 0)
         => tasks[t].delay = 60 * Pow(2, tasks[t].retries - 1)
    /\ (Ended(t) /\ tasks[t].exc # "none")
         => IF tasks[t].retries < 3
            THEN tasks[t].next = "retry" /\ tasks[t].delay = 60 * Pow(2, tasks[t].retries)
            ELSE tasks[t].next = "none"

\* The third retry of a cycle waits in the broker with its delay of 240 s.
C6_Witness ==
  \E t \in Tasks : tasks[t].pc = "pending" /\ tasks[t].retries = 3 /\ tasks[t].delay = 240

\* C7: a cycle that failed although the venue was reachable (a rejected order,
\* the custom mode's NotImplementedError) is not retried.
C7_OnlyConnectivityRetried ==
  \A t \in Tasks :
    (Ended(t) /\ tasks[t].exc # "none" /\ tasks[t].connOk) => tasks[t].next # "retry"

\* C8: when a cycle that exhausted its retries ends, the bot is active and a
\* cycle of it is pending.
C8_ActiveBotKeepsCycle ==
  [][\A t \in Tasks :
       (tasks[t].pc = "finally" /\ tasks[t].outcome = "exhausted" /\ tasks'[t].pc = "idle")
         => (ActiveBot(bot') /\ \E u \in Tasks : tasks'[u].pc # "idle")]_vars

C10_StopLossCloses ==
  \A t \in Tasks :
    (Ended(t) /\ tasks[t].outcome = "success" /\ cfg.stop_loss # 0 /\ tasks[t].s.position > 0)
      => ~RLe(RInt(tasks[t].price),
              Rat(tasks[t].s.avg_price[1] * (100 - cfg.stop_loss), tasks[t].s.avg_price[2] * 100))

\* The cycle of task t ran execute() in this step (the step of Body with the
\* signal true).
Executed(t) == tasks[t].pc = "loaded" /\ tasks'[t].pc # "loaded" /\ tasks'[t].signal

\* The step placed exactly one order, a sell.
SoldOne == nextId' = nextId + 1 /\ orders'[nextId].side = "sell"

\* C11: in trailing-stop mode a cycle sells only with an open position and a
\* price at or below highest * (1 - trailing per cent), highest being the
\* larger of the stored highest price and the price; the sale is of the full
\* quantity and closes the Position; when it does not sell, the stored highest
\* price becomes that maximum (the entry price on entry).
C11_TrailingStopSale ==
  [][\A t \in Tasks :
       (Executed(t) /\ cfg.trade_mode = "trailing_stop" /\ cfg.combined_strategies = <<>>)
         => LET pre == tasks[t].s
                p == RInt(tasks'[t].price)
                h == IF RLe(pre.highest_price, p) THEN p ELSE pre.highest_price
                tp == IF cfg.trailing_stop_percentage # 0 THEN cfg.trailing_stop_percentage ELSE 1
                open == pre.position_opened /\ pre.position > 0
                atStop == p[1] * h[2] * 100 <= h[1] * (100 - tp) * p[2]
            IN /\ nextId' \in {nextId, nextId + 1}
               /\ (nextId' # nextId /\ open)
                    => (SoldOne /\ atStop /\ orders'[nextId].qty = pre.position
                        /\ orders'[nextId].price = tasks'[t].price /\ pos' = EmptyPosition)
               /\ (nextId' # nextId /\ ~open)
                    => (orders'[nextId].side = "buy" /\ pos'.highest_price = p /\ pos'.position > 0)
               /\ (nextId' = nextId /\ open /\ tasks'[t].exc = "none")
                    => (~atStop /\ pos'.highest_price = h /\ pos'.position = pre.position)]_vars

\* A trailing-stop cycle has just sold at price 1 a position entered at price 1:
\* the highest price stored in between was 2.
C11_Witness ==
  /\ cfg.trade_mode = "trailing_stop"
  /\ \E t \in Tasks : Ended(t) /\ tasks[t].signal /\ tasks[t].placed = 1 /\ tasks[t].price = 1
  /\ pos = EmptyPosition
  /\ \E b, o \in DOMAIN orders :
       /\ b + 1 = o /\ o + 1 = nextId
       /\ orders[b].side = "buy" /\ orders[b].price = 1
       /\ orders[o].side = "sell" /\ orders[o].price = 1 /\ orders[o].qty = orders[b].qty

\* C12: every request create_order sends carries a quantity that is an exact
\* multiple of the venue's quantity step and at least the minimum order size;
\* when flooring the requested quantity to the step gives less than the
\* minimum, create_order fails and sends nothing.
C12_SentQuantity ==
  call.op = "create_order" /\ call.done
    => /\ call.sent => /\ call.sentQty % EffStep(call.step) = 0
                       /\ call.sentQty >= EffMin(call.min)
                       /\ call.sentQty <= call.qty
       /\ (call.qty \div EffStep(call.step)) * EffStep(call.step) < EffMin(call.min)
            => ~call.sent /\ call.error

C12_Witness ==
  /\ call.op = "create_order" /\ call.done /\ call.sent
  /\ call.qty = 5 /\ call.step = 2 /\ call.min = 3 /\ call.sentQty = 4

\* C13: in every reachable state the persisted Position tracks at most
\* grid_orders buy-order identifiers, whatever the trade mode or combination.
C13_BuyOrdersBounded == Len(pos.buy_orders) <= cfg.grid_orders

\* The modes of the cycle that run before run_advanced_grid.
RECURSIVE ModesBeforeGrid(_)
ModesBeforeGrid(modes) ==
  IF modes = <<>> \/ Head(modes) = "order_grid" THEN <<>>
  ELSE <<Head(modes)>> \o ModesBeforeGrid(Tail(modes))

\* The machine at the moment run_advanced_grid is entered.
GridEntry(m, inp) ==
  IF cfg.combined_strategies = <<>> THEN m
  ELSE RunCombined(m, inp, ModesBeforeGrid(cfg.combined_strategies))

\* The inputs under which execute() reaches the trade modes.
ReachesModes(inp) == inp.sig /\ inp.balOk /\ ~(MarginCheckApplies /\ inp.margin)

\* check_open_orders sees the take-profit order of g filled.
SellSeenFilled(g, inp) ==
  /\ "order_grid" \in ModeSet /\ inp.priceOk /\ inp.respOk /\ g.exc = "none"
  /\ g.s.sell_order_id # 0
  /\ g.s.sell_order_id \in Response(g, inp)
  /\ g.orders[g.s.sell_order_id].status = "filled"

\* The step from b to a placed one sell order for the whole quantity of b
\* and went on without an exception (a trailing-stop or stop-loss exit).
ExitSale(b, a) ==
  /\ a.exc = "none" /\ b.s.position > 0
  /\ a.nextId = b.nextId + 1
  /\ a.orders[b.nextId].side = "sell" /\ a.orders[b.nextId].qty = b.s.position

\* C14: whenever a position is closed (take-profit sell seen filled by
\* check_open_orders, trailing-stop exit, stop-loss exit, or the last step of
\* a bot stop), the Position row saved by that operation is all zero / empty.
C14_ClosedPositionIsEmpty ==
  \A t \in Tasks :
    /\ tasks[t].pc = "stop3"
         => \A co \in BOOLEAN : StopOp(Machine(t), [cancelOk |-> co], "zero").dpos = EmptyPosition
    /\ tasks[t].pc = "loaded"
         => \A inp \in { i \in Inputs : ReachesModes(i) } :
              /\ \A g \in { GridEntry(Machine(t), inp) } :
                    SellSeenFilled(g, inp) => CheckOpenOrders(g, inp).dpos = EmptyPosition
              /\ cfg.trade_mode = "trailing_stop" /\ cfg.combined_strategies = <<>>
                    => \A a \in { RunTrailingStop(Machine(t), inp) } :
                         ExitSale(Machine(t), a) => a.dpos = EmptyPosition
              /\ \A b \in { RunModes(Machine(t), inp) } :
                    \A a \in { StopLossPostCheck(b, inp) } :
                      ExitSale(b, a) => a.dpos = EmptyPosition

\* The AND of evaluating each member on its own on the window w.
RECURSIVE AndOfSingles(_, _)
AndOfSingles(signals, w) ==
  IF signals = <<>> THEN "true"
  ELSE IF check_single_signal(Head(signals), w) = "true" THEN AndOfSingles(Tail(signals), w)
  ELSE "false"

\* C15: a combined signal evaluates to the logical AND of check_single_signal
\* of each member on the same window, for every kind and condition.
C15_CombinedIsAndOfSingles ==
  (call.op = "check_signal" /\ call.done /\ call.combined_signals # <<>>)
    => call.result = AndOfSingles(call.combined_signals, call.window)

\* The window of n candles is too short for the indicator of sig, or the
\* window minus its last candle is too short for the crossover check.
TooShort(sig, n) ==
  CASE sig.type = "macd" -> MinusLast(n) < Period
    [] sig.type = "ma_crossover" -> n < Period + 1
    [] OTHER -> n < Period

\* The members check_signal evaluates: the combination, or the single signal.
Members(c) == IF c.combined_signals # <<>> THEN c.combined_signals ELSE <<c.signal>>

\* C16: check_signal never raises, and it returns false when the window is
\* empty or too short for one of the signals it evaluates.
C16_InsufficientDataIsFalse ==
  (call.op = "check_signal" /\ call.done)
    => /\ call.result \in {"true", "false"}
       /\ (\E i \in 1..Len(Members(call)) : TooShort(Members(call)[i], call.window.n))
            => call.result = "false"

\* A combined MACD crossover on a window whose predecessor is too short.
C16_Witness ==
  /\ call.op = "check_signal" /\ call.done /\ call.result = "false"
  /\ call.combined_signals = <<[type |-> "macd", condition |-> "crossover"]>>
  /\ call.window.n = Period /\ call.window.cur = <<1, 0>>

\* The spread of a call against its threshold, both in exact arithmetic:
\* 1 above +threshold, -1 below -threshold, 0 inside the band (ends included).
SpreadSide(c) ==
  LET pm == IF c.threshold = 0 THEN 5 ELSE c.threshold * 10
      s == Rat((c.fut - c.spot) * 1000, c.spot)
  IN IF ~RLe(s, RInt(pm)) THEN 1 ELSE IF ~RLe(RInt(0 - pm), s) THEN 0 - 1 ELSE 0

C18_RequestCeiling == call.op = "requests" => call.sent <= RateLimit

\* The cycle with inputs inp reaches check_open_orders and its request fails.
PollFails(m, inp) ==
  /\ "order_grid" \in ModeSet /\ inp.priceOk /\ ~inp.respOk
  /\ GridEntry(m, inp).exc = "none"

\* C19: a cycle in which the price lookup or the open-order polling met a
\* timeout or transport failure ends with an exception, it does not go on.
C19_TransportFailureFailsCycle ==
  \A t \in Tasks :
    tasks[t].pc = "loaded"
      => \A inp \in { i \in Inputs : ReachesModes(i) } :
           (~inp.priceOk \/ PollFails(Machine(t), inp))
             => Execute(Machine(t), inp).exc # "none"

\* C20: a cycle aborted by the soft time limit ends reported as such with no
\* retry scheduled, and when its invocation is over no message of it is left.
C20_SoftTimeoutNotRetried ==
  [][\A t \in Tasks :
       /\ tasks'[t].outcome = "soft_timeout"
            => tasks'[t].pc = "finally" /\ tasks'[t].next = "none"
       /\ (tasks[t].outcome = "soft_timeout" /\ tasks'[t] # tasks[t])
            => tasks'[t] = IdleTask]_vars

\* A cycle cut by the soft limit after it had placed an order, the bot still active.
C20_Witness ==
  \E t \in Tasks :
    /\ tasks[t].pc = "finally" /\ tasks[t].outcome = "soft_timeout"
    /\ ActiveBot(bot) /\ nextId > 1

\* An invocation between its cache.set and the end of its finally clause.
Holding == {"loaded", "stop1", "stop2", "stop3", "finally"}

\* C21: an invocation that took the lock has released it when it ends by
\* success, stop, handled failure, retry or exception: with no invocation
\* between cache.set and the end of its finally clause, the lock is free.
C21_LockReleased ==
  lock => \E t \in Tasks : tasks[t].pc \in Holding /\ tasks[t].outcome # "skipped_locked"

\* An invocation that took the lock and failed has ended, its retry is in the
\* broker, nothing runs and the lock is free.
C21_Witness ==
  /\ ~lock
  /\ \A t \in Tasks : tasks[t].pc \notin Running
  /\ \E t \in Tasks : tasks[t].pc = "pending" /\ tasks[t].retries > 0

\* C22: a cycle that starts (reads the bot row) while the bot is not active
\* places and cancels no order, leaves Position unchanged and schedules no
\* further cycle: its steps change neither orders nor Position and it ends
\* with no message left in the broker.
C22_InactiveCycleDoesNothing ==
  [][\A t \in Tasks :
       /\ ( /\ tasks[t].pc = "checked"
            /\ ~(bot.is_running /\ bot.status = "active")
            /\ tasks'[t] # tasks[t] )
          => /\ orders' = orders /\ pos' = pos
             /\ tasks'[t].next = "none"
             /\ \/ tasks'[t].pc = "finally" /\ tasks'[t].outcome = "skipped_inactive"
                \/ tasks'[t] = IdleTask
       /\ ( /\ tasks[t].pc = "finally"
            /\ tasks[t].outcome = "skipped_inactive"
            /\ tasks'[t] # tasks[t] )
          => /\ orders' = orders /\ pos' = pos
             /\ tasks'[t] = IdleTask]_vars

\* A cycle found the bot stopped while orders of the bot were on the venue.
C22_Witness ==
  \E t \in Tasks :
    /\ tasks[t].pc = "finally"
    /\ tasks[t].outcome = "skipped_inactive"
    /\ \E o \in DOMAIN orders : orders[o].status = "open"

\* C23: the buy order of grid level i has the size base * (1 + martingale)^i
\* before the rounding to the step, and a level whose size is below the
\* minimum order size gets no order.
C23_LevelSizeOrSkipped ==
  (call.op = "grid_level" /\ call.done)
    => LET raw == LevelSize(call.base, call.mart, call.i)
       IN /\ ~RLe(RInt(call.min), raw) => ~call.placed
          /\ call.placed => call.qty \in QuantityOutcomes(raw, call.step)

\* C24: the buy levels returned for a price, a tick and a grid configuration
\* with at least one order are, after rounding to the tick, all below the
\* price, strictly decreasing and pairwise distinct.
C24_LevelsBelowAndDecreasing ==
  (call.op = "buy_levels" /\ call.done)
    => /\ \A k \in 1..call.n : call.levels[k] < call.price
       /\ \A j, k \in 1..call.n : j < k => call.levels[k] < call.levels[j]

\* The sell orders resting on the venue.
OpenSells == { o \in DOMAIN orders : orders[o].side = "sell" /\ orders[o].status = "open" }

\* C25: in grid mode at most one take-profit sell order is outstanding at
\* any time.
C25_OneSellOutstanding ==
  (cfg.trade_mode = "order_grid" /\ cfg.combined_strategies = <<>>)
    => Cardinality(OpenSells) <= 1

\* The cycle of task t went through check_signal and what follows it without
\* an exception in this step.
CycleRan(t) ==
  /\ tasks[t].pc = "loaded"
  /\ tasks'[t].pc \in {"finally", "stop1"}
  /\ tasks'[t].outcome # "soft_timeout"
  /\ tasks'[t].exc = "none"

\* C26: while a trailing-stop position is open, every cycle leaves the stored
\* highest price at max(highest price, current price) unless it closes the
\* position: after the cycle the stored highest price is at least the price of
\* that cycle and not below its former value, signal or no signal.
C26_HighestPriceFollows ==
  [][\A t \in Tasks :
       ( /\ CycleRan(t)
         /\ cfg.trade_mode = "trailing_stop" /\ cfg.combined_strategies = <<>>
         /\ tasks[t].s.position_opened /\ tasks[t].s.position > 0
         /\ pos = tasks[t].po
         /\ pos'.position > 0 )
         => /\ RLe(RInt(tasks'[t].price), pos'.highest_price)
            /\ RLe(pos.highest_price, pos'.highest_price)]_vars

\* The tracked buy orders of the loaded strategy that the venue has filled.
FilledTracked(t) ==
  { o \in DOMAIN orders : SeqContains(tasks[t].s.buy_orders, o) /\ orders[o].status = "filled" }

\* C27: every cycle, whatever the trade mode, reconciles the fills of the
\* tracked orders: a cycle that starts with a filled tracked buy order counts
\* it (the deal counter grows) and stops tracking it as an open order.
C27_FillsReconciled ==
  [][\A t \in Tasks :
       (CycleRan(t) /\ pos = tasks[t].po /\ FilledTracked(t) # {})
         => /\ tasks'[t].bot.deals_completed > tasks[t].bot.deals_completed
            /\ \A o \in FilledTracked(t) : ~SeqContains(pos'.buy_orders, o)]_vars

C29_WeightedAverage ==
  (call.op = "update_position" /\ call.n >= 1)
    => /\ call.Q = call.sumQ
       /\ call.A[1] * call.sumQ = call.sumPQ * call.A[2]
       /\ call.prevQ > 0
            => /\ call.Q = call.prevQ + call.q
               /\ call.A[1] * call.prevA[2] * (call.prevQ + call.q)
                    = (call.prevA[1] * call.prevQ + call.p * call.q * call.prevA[2]) * call.A[2]

\* Two buys at different prices and of different sizes.
C29_Witness ==
  /\ call.op = "update_position" /\ call.n = 2
  /\ call.prevQ = 1 /\ call.prevA = RInt(1) /\ call.p = 3 /\ call.q = 2
  /\ call.Q = 3 /\ call.A = <<7, 3>>

\* The lock is held and no invocation is running: its holder was killed.
OrphanLock == lock /\ \A t \in Tasks : tasks[t].pc \notin Running

\* C30: a lock left behind by a killed cycle does not stay: it becomes free,
\* and an invocation that arrives when it is free goes on to take it and run.
C30_OrphanLockExpires ==
  /\ OrphanLock ~> ~lock
  /\ [][\A t \in Tasks :
          /\ (tasks[t].pc = "pending" /\ ~lock /\ tasks'[t].pc \in Running)
               => tasks'[t].pc = "checked"
          /\ (tasks[t].pc = "checked" /\ bot.is_running /\ bot.status = "active"
               /\ tasks'[t].pc \in Running /\ tasks'[t].pc # "checked")
               => (tasks'[t].pc = "loaded" /\ lock')]_vars

\* A cycle was killed after sending its successor: the lock is held, nothing
\* runs, and an invocation is waiting in the broker.
C30_Witness == OrphanLock /\ \E t \in Tasks : tasks[t].pc = "pending"

\* C31: rounding to the tick is idempotent: every later rounding of a price
\* (by place_order, by create_order) gives the price the first rounding gave.
C31_RoundingIdempotent ==
  call.op = "round_price"
    => \A i \in 1..Len(call.rounded) : call.rounded[i] = call.rounded[1]

\* C32: an invocation that skipped because it found the lock held leaves the
\* lock held: no step of such an invocation frees it.
C32_SkipKeepsLock ==
  [][\A t \in Tasks :
       ( /\ tasks[t].pc = "finally" /\ tasks[t].outcome = "skipped_locked"
         /\ tasks'[t] # tasks[t]
         /\ lock
         /\ \E u \in Tasks : tasks[u].pc \in InCycle )
         => lock']_vars

\* C33: at most one future cycle of the bot (next tick or retry) is waiting
\* in the broker at any time.
C33_OnePendingCycle ==
  Cardinality({ t \in Tasks : tasks[t].pc = "pending" }) <= 1

\* C34: once a stop has completed (its three steps done, status 'stopped'
\* and the zeroed Position stored), the stored status stays 'stopped' and the
\* Position stays zeroed in every step that is not a start by the user.
C34_StopIsNotUndone ==
  [][( /\ \E t \in Tasks : tasks[t].pc = "finally" /\ Len(tasks[t].stopDone) = 3
       /\ bot.status = "stopped" /\ pos = EmptyPosition
       /\ starts' = starts )
       => (bot'.status = "stopped" /\ pos' = EmptyPosition)]_vars

\* C35: every order of a grid bot that is still open on the venue is tracked
\* in the stored Position, among buy_orders or as sell_order_id.
C35_OpenOrdersTracked ==
  (cfg.trade_mode = "order_grid" /\ cfg.combined_strategies = <<>>)
    => \A o \in DOMAIN orders :
         orders[o].status = "open"
           => (SeqContains(pos.buy_orders, o) \/ pos.sell_order_id = o)

\* C36: check_open_orders takes a tracked buy order out of buy_orders only
\* when the venue's answer showed it filled: an order absent from the answer
\* stays tracked.
C36_AbsentOrderStaysTracked ==
  \A t \in Tasks :
    (tasks[t].pc = "loaded" /\ "order_grid" \in ModeSet)
      => \A inp \in { i \in Inputs : ReachesModes(i) /\ i.priceOk /\ i.respOk } :
           \A g \in { GridEntry(Machine(t), inp) } :
             g.exc = "none"
               => \A a \in { CheckOpenOrders(g, inp) } :
                    \A o \in DOMAIN g.orders :
                      (SeqContains(g.s.buy_orders, o) /\ ~SeqContains(a.s.buy_orders, o))
                        => (o \in Response(g, inp) /\ g.orders[o].status = "filled")

\* The quantity of all buy orders the venue accepted, ids from o on.
RECURSIVE BoughtQty(_)
BoughtQty(o) ==
  IF o > MaxOrders THEN 0
  ELSE (IF o \in DOMAIN orders /\ orders[o].side = "buy" THEN orders[o].qty ELSE 0)
       + BoughtQty(o + 1)

\* C37: the quantity of each buy order is added to Position at most once, so
\* the stored quantity never exceeds the quantity of all buy orders placed.
C37_BuyCountedOnce == pos.position <= BoughtQty(1)

\* The same answers from a venue that takes every order of the cycle.
Willing(inp) == [inp EXCEPT !.accept = MaxOrders + 1]

\* The step from g to a placed a sell order.
Sells(g, a) == \E o \in DOMAIN a.orders \ DOMAIN g.orders : a.orders[o].side = "sell"

\* The exit from g that a willing venue would have sold (b) placed no sell order (a).
ExitFailed(g, a, b) == Sells(g, b) /\ ~Sells(g, a)

\* The trailing-stop exits of the cycle of t whose sale the venue refuses.
TrailingExitFails(t, inp) ==
  /\ cfg.trade_mode = "trailing_stop" /\ cfg.combined_strategies = <<>>
  /\ ReachesModes(inp)
  /\ ExitFailed(Machine(t), RunTrailingStop(Machine(t), inp), RunTrailingStop(Machine(t), Willing(inp)))

\* The stop-loss exits of the cycle of t whose sale the venue refuses.
StopLossExitFails(t, inp) ==
  /\ cfg.stop_loss # 0
  /\ ReachesModes(inp)
  /\ \E g \in { RunModes(Machine(t), inp) } :
       /\ g.exc = "none" /\ g.s.position > 0
       /\ ExitFailed(g, CheckStopLoss(g, inp), CheckStopLoss(g, Willing(inp)))

\* C38: when the sell order of a trailing-stop exit or of a stop-loss exit is
\* refused, the stored Position is the one before the exit and the failure
\* escapes; a position is closed by an exit only with its sell order accepted.
C38_FailedExitKeepsPosition ==
  \A t \in Tasks : tasks[t].pc = "loaded" =>
    \A inp \in Inputs :
      /\ TrailingExitFails(t, inp) =>
           \A a \in { RunTrailingStop(Machine(t), inp) } :
             a.dpos = pos /\ a.exc # "none"
      /\ StopLossExitFails(t, inp) =>
           \A g \in { RunModes(Machine(t), inp) } :
             \A a \in { CheckStopLoss(g, inp) } :
               a.dpos = g.dpos /\ a.exc # "none"

\* A cycle is about to run a stop-loss exit whose sale is refused.
C38_Witness ==
  \E t \in Tasks : tasks[t].pc = "loaded" /\ \E inp \in Inputs : StopLossExitFails(t, inp)

\* A cycle is about to run a trailing-stop exit whose sale is refused.
C38_TrailingCase ==
  \E t \in Tasks : tasks[t].pc = "loaded" /\ \E inp \in Inputs : TrailingExitFails(t, inp)

\* C39: the arbitrage bot's accepted spot-leg orders and futures-leg orders
\* are equal in number, so the orders the venue accepted from it come in pairs.
C39_LegsInPairs ==
  (cfg.trade_mode = "arbitrage" /\ cfg.combined_strategies = <<>>) =>
    Cardinality(DOMAIN orders) % 2 = 0

\* C40: a cycle leaves the stored configuration of the bot alone: the stored
\* trade_mode is the configured one in every state.
C40_TradeModeKept == bot.trade_mode = cfg.trade_mode

====
